---- MODULE Spec2Model ----
(***************************************************************************)
(* A model of the rbf BrainF*** interpreter (src/src/lib.rs): the          *)
(* Instructions builder and the Program execution engine (reset, new,      *)
(* execute, step, done and the private helpers step dispatches to).        *)
(*                                                                         *)
(* Conventions.  Vec indices are 0-based as in the source: the element of  *)
(* a Vec v at index i is v[i + 1] of the sequence that models it.  A char  *)
(* of the source text is a one-character string; a char crossing the       *)
(* input or output closure is its code point (`c as u32`).                 *)
(***************************************************************************)
EXTENDS Integers, Sequences, FiniteSets, TLC

(***************************************************************************)
(* Bounds of the model.                                                    *)
(***************************************************************************)
\* Source texts of every length up to MaxLen are enumerated.
MaxLen == 4
\* cell_ptr stays below MaxTape (the Vec of cells is unbounded in the code).
MaxTape == 7
\* At most MaxOut characters are recorded from the output closure per run.
MaxOut == 13

(***************************************************************************)
(* Characters.                                                             *)
(***************************************************************************)
\* The eight command characters of Instructions::from_string.
Commands == {">", "<", "-", "+", ".", ",", "[", "]"}

\* Source characters enumerated: the commands and one comment character.
SourceChars == Commands \cup {"s"}

\* Code points the input closure may return: NUL, U+00FF (the largest
\* accepted), U+0100 (the smallest rejected) and U+10FFFF (char::MAX).
Chars == {0, 255, 256, 1114111}

(***************************************************************************)
(* enum Instruct                                                           *)
(***************************************************************************)
MvPtr(n) == [kind |-> "MvPtr", n |-> n]
MvValue(n) == [kind |-> "MvValue", n |-> n]
Output == [kind |-> "Output"]
Input == [kind |-> "Input"]
OpenLoop == [kind |-> "OpenLoop"]
CloseLoop == [kind |-> "CloseLoop"]

(***************************************************************************)
(* Instructions::from_string: the fold keeps, in order, the instruction of *)
(* each command character and drops every other character.                *)
(***************************************************************************)
\* Mutant of instruction_of: the arms of `+` and `-` are exchanged.
instruction_of_signs_swapped(c) ==
    IF c = ">" THEN MvPtr(1)
    ELSE IF c = "<" THEN MvPtr(-1)
    ELSE IF c = "-" THEN MvValue(1)
    ELSE IF c = "+" THEN MvValue(-1)
    ELSE IF c = "." THEN Output
    ELSE IF c = "," THEN Input
    ELSE IF c = "[" THEN OpenLoop
    ELSE CloseLoop

\* The match of from_string on one character (Some(_), for a command).
instruction_of(c) ==
    IF c = ">" THEN MvPtr(1)
    ELSE IF c = "<" THEN MvPtr(-1)
    ELSE IF c = "-" THEN MvValue(-1)
    ELSE IF c = "+" THEN MvValue(1)
    ELSE IF c = "." THEN Output
    ELSE IF c = "," THEN Input
    ELSE IF c = "[" THEN OpenLoop
    ELSE CloseLoop

\* The arm `_ => None` of that match: any character that is no command.
is_command(c) == c \in Commands

from_string(commands) ==
    LET kept == SelectSeq(commands, is_command)
    IN  [i \in 1..Len(kept) |-> instruction_of(kept[i])]

(***************************************************************************)
(* Source texts of the repository's tests and doc examples.                *)
(***************************************************************************)
Src_str_to_instructions ==
    <<"+", "-", "<", ">", "s", "[", "]", "c", "o", "m", "m", "e", "n", "t", ",",
    ".">>

Src_all_commands ==
    <<"+", "-", ">", "<", "[", "]", ",", ".">>

Src_cell_bounds_error ==
    <<"<", "+">>

Src_invalid_input ==
    <<",">>

Src_missing_open_bracket ==
    <<"+", "+", ">", "+", "+", "+", ">", "+", ".", "<", ".", "]", "-", "<", "+",
    "+", "+">>

Src_missing_close_bracket ==
    <<"+", "+", ">", "+", "+", "+", ">", "+", ".", "<", ".", "[", "-", "<", "+",
    "+", "+">>

Src_missing_close_bracket2 ==
    <<"+", "+", ">", "+", "+", "+", ">", "+", ".", "<", ".", ">", ">", ">", "[",
    "-", "<", "+", "+", "+">>

Src_echo_two ==
    <<",", ">", ",", "<", ".", ">", ".">>

Src_hello_world ==
    <<"+", "+", "+", "+", "+", "+", "+", "+", "[", ">", "+", "+", "+", "+", "[",
    ">", "+", "+", ">", "+", "+", "+", ">", "+", "+", "+", ">", "+", "<", "<",
    "<", "<", "-", "]", ">", "+", ">", "+", ">", "-", ">", ">", "+", "[", "<",
    "]", "<", "-", "]", ">", ">", ".", ">", "-", "-", "-", ".", "+", "+", "+",
    "+", "+", "+", "+", ".", ".", "+", "+", "+", ".", ">", ">", ".", "<", "-",
    ".", "<", ".", "+", "+", "+", ".", "-", "-", "-", "-", "-", "-", ".", "-",
    "-", "-", "-", "-", "-", "-", "-", ".", ">", ">", "+", ".", ">", "+", "+",
    ".">>

TestSources ==
    { Src_str_to_instructions, Src_all_commands, Src_cell_bounds_error,
      Src_invalid_input, Src_missing_open_bracket, Src_missing_close_bracket,
      Src_missing_close_bracket2, Src_echo_two, Src_hello_world }

\* Every source text the model runs: all texts of at most MaxLen characters
\* and the texts of the repository's tests.
Sources ==
    UNION { [1..n -> SourceChars] : n \in 0..MaxLen } \cup TestSources

(***************************************************************************)
(* The state: the fields of struct Program, the position of the caller     *)
(* inside execute, and a record of what the host observed.                 *)
(***************************************************************************)
VARIABLES
    source,           \* the text given to Program::from_string
    instructions,     \* Program.instructions (the Vec inside Instructions)
    instruction_ptr,  \* Program.instruction_ptr
    cells,            \* Program.cells
    cell_ptr,         \* Program.cell_ptr
    loop_stack,       \* Program.loop_stack
    pc,               \* "idle", or inside execute: "done" (about to call
                      \* done) or "step" (about to call step)
    call,             \* the API call made last: new, reset, step, done, execute
    result,           \* what that call returned ("running": still in execute)
    cb,               \* the closure the last step invoked: none, input, output
    cb_char,          \* the character that closure returned or received
    out,              \* characters passed to the output closure since the
                      \* engine was constructed or reset
    from_init,        \* execute was last called on an engine in initial state
    failed            \* the error of the last step that failed since the
                      \* engine was constructed or reset, or "none"

prog == <<instructions, instruction_ptr, cells, cell_ptr, loop_stack>>
vars == <<source, instructions, instruction_ptr, cells, cell_ptr, loop_stack,
          pc, call, result, cb, cb_char, out, from_init, failed>>

\* The Program as one value, for the methods below.
Self ==
    [ instruction_ptr |-> instruction_ptr,
      cells |-> cells,
      cell_ptr |-> cell_ptr,
      loop_stack |-> loop_stack ]

\* BFErrorKind
BFErrorKind ==
    { "MissingOpen", "MissingClose", "InvalidInput", "CellBoundsError",
      "InstructionBoundsError" }

\* What a method hands back: the Program after it, Ok or the error kind, and
\* what it did to the closures.
Ret(self, res) ==
    [self |-> self, res |-> res, cb |-> "none", cb_char |-> 0, emitted |-> <<>>]

(***************************************************************************)
(* impl Program                                                            *)
(***************************************************************************)
\* Program::new (and Program::reset): the state of a fresh engine.
new ==
    [ instruction_ptr |-> 0,
      cells |-> <<>>,
      cell_ptr |-> 0,
      loop_stack |-> <<>> ]

\* Mutant of reset: the loop stack is not cleared.
reset_keeping_loop_stack(self) ==
    [ self EXCEPT !.instruction_ptr = 0,
                  !.cells = <<>>,
                  !.cell_ptr = 0 ]

\* Program::reset: clears the instruction pointer, cells, cell pointer and
\* loop stack; the instructions are not touched.
reset(self) ==
    [ self EXCEPT !.instruction_ptr = 0,
                  !.cells = <<>>,
                  !.cell_ptr = 0,
                  !.loop_stack = <<>> ]

\* Mutant of done: the loop stack is not looked at.
done_ignoring_loop_stack(self) ==
    IF self.instruction_ptr >= Len(instructions) THEN "true" ELSE "false"

\* Program::done: Ok(true) as "true", Ok(false) as "false", or MissingClose.
done(self) ==
    IF self.instruction_ptr >= Len(instructions)
    THEN IF Len(self.loop_stack) > 0 THEN "MissingClose" ELSE "true"
    ELSE "false"

\* usize::checked_add_signed for cell_ptr: None when the sum is negative.
\* (The sum cannot pass usize::MAX: cell_ptr stays below MaxTape.)
checked_add_signed(x, amount) ==
    IF x + amount < 0
    THEN [some |-> FALSE, val |-> 0]
    ELSE [some |-> TRUE, val |-> x + amount]

\* Mutant of move_cell_pointer: saturating_add_signed, which never fails.
move_cell_pointer_saturating(self, amount) ==
    Ret([self EXCEPT !.cell_ptr =
                         IF @ + amount < 0 THEN 0 ELSE @ + amount],
        "Ok")

\* Program::move_cell_pointer
move_cell_pointer(self, amount) ==
    LET sum == checked_add_signed(self.cell_ptr, amount)
    IN  IF sum.some
        THEN Ret([self EXCEPT !.cell_ptr = sum.val], "Ok")
        ELSE Ret(self, "CellBoundsError")

\* Mutant of validate_cells_length: `cells.resize(cell_ptr + 1, 0)`, which
\* also cuts the tape behind the cursor.
validate_cells_length_resizing(self) ==
    [self EXCEPT !.cells = [i \in 1..(self.cell_ptr + 1) |->
                               IF i <= Len(self.cells) THEN self.cells[i]
                               ELSE 0]]

\* Program::validate_cells_length: push 0 while cells.len() <= cell_ptr.
RECURSIVE validate_cells_length(_)
validate_cells_length(self) ==
    IF Len(self.cells) <= self.cell_ptr
    THEN validate_cells_length([self EXCEPT !.cells = Append(@, 0)])
    ELSE self

\* `amount as i8`: the low 8 bits of the isize, read as two's complement.
as_i8(amount) == ((amount + 128) % 256) - 128

\* Mutant of wrapping_add_signed: u8::saturating_add_signed.
saturating_add_signed(value, rhs) ==
    IF value + rhs > 255 THEN 255 ELSE IF value + rhs < 0 THEN 0 ELSE value + rhs

\* u8::wrapping_add_signed
wrapping_add_signed(value, rhs) == (value + rhs) % 256

\* Program::move_cell_value
move_cell_value(self, amount) ==
    Ret([self EXCEPT !.cells[self.cell_ptr + 1] =
                         wrapping_add_signed(@, as_i8(amount))],
        "Ok")

\* Mutant of input_cell: `in_char as u8` with no range check.
input_cell_truncating(self, in_char) ==
    [ Ret([self EXCEPT !.cells[self.cell_ptr + 1] = in_char % 256], "Ok")
      EXCEPT !.cb = "input", !.cb_char = in_char ]

\* Program::input_cell: in_char is the character the input closure returned.
input_cell(self, in_char) ==
    LET in_byte == in_char
    IN  IF in_byte < 256
        THEN [ Ret([self EXCEPT !.cells[self.cell_ptr + 1] = in_byte % 256],
                   "Ok")
               EXCEPT !.cb = "input", !.cb_char = in_char ]
        ELSE [ Ret(self, "InvalidInput")
               EXCEPT !.cb = "input", !.cb_char = in_char ]

\* Mutant of output_cell: the first cell is emitted, not the current one.
output_cell_first_cell(self) ==
    [ Ret(self, "Ok") EXCEPT !.cb = "output",
                             !.cb_char = self.cells[1],
                             !.emitted = <<self.cells[1]>> ]

\* Mutant of output_cell: the output closure is not invoked.
output_cell_not_calling(self) == Ret(self, "Ok")

\* Program::output_cell: the output closure receives the current cell.
output_cell(self) ==
    [ Ret(self, "Ok") EXCEPT !.cb = "output",
                             !.cb_char = self.cells[self.cell_ptr + 1],
                             !.emitted = <<self.cells[self.cell_ptr + 1]>> ]

\* The loop of Program::move_to_closed_loop: loopstack holds the positions of
\* the Open-Loops passed by the scan, current_instruction the scan position.
RECURSIVE move_to_closed_loop_scan(_, _, _)
move_to_closed_loop_scan(self, loopstack, current_instruction) ==
    IF current_instruction >= Len(instructions)
    THEN Ret(self, "MissingClose")
    ELSE LET instruction == instructions[current_instruction + 1]
         IN  IF instruction = OpenLoop
             THEN move_to_closed_loop_scan(
                      self, Append(loopstack, current_instruction),
                      current_instruction + 1)
             ELSE IF instruction = CloseLoop
             THEN IF Len(loopstack) = 0
                  THEN Ret([self EXCEPT !.instruction_ptr = current_instruction],
                           "Ok")
                  ELSE move_to_closed_loop_scan(
                           self, SubSeq(loopstack, 1, Len(loopstack) - 1),
                           current_instruction + 1)
             ELSE move_to_closed_loop_scan(
                      self, loopstack, current_instruction + 1)

\* Mutant of move_to_closed_loop: the first Close-Loop after the Open-Loop is
\* taken for its match, whatever the nesting.
move_to_first_close(self) ==
    LET closes == { i \in (self.instruction_ptr + 1)..(Len(instructions) - 1) :
                        instructions[i + 1] = CloseLoop }
    IN  IF closes = {}
        THEN Ret(self, "MissingClose")
        ELSE Ret([self EXCEPT !.instruction_ptr =
                                  CHOOSE i \in closes : \A j \in closes : i <= j],
                 "Ok")

\* Program::move_to_closed_loop
move_to_closed_loop(self) ==
    move_to_closed_loop_scan(self, <<>>, self.instruction_ptr + 1)

\* Mutant of open_loop: `>= 0` for `> 0`, so that the loop is entered on a
\* zero cell too.
open_loop_entering_on_zero(self) ==
    IF self.cells[self.cell_ptr + 1] >= 0
    THEN Ret([self EXCEPT !.loop_stack = Append(@, self.instruction_ptr)], "Ok")
    ELSE move_to_closed_loop(self)

\* Mutant of open_loop: the cell is tested as an i8, so that a byte above
\* 127 counts as not positive.
open_loop_signed_cell(self) ==
    IF self.cells[self.cell_ptr + 1] > 0 /\ self.cells[self.cell_ptr + 1] < 128
    THEN Ret([self EXCEPT !.loop_stack = Append(@, self.instruction_ptr)], "Ok")
    ELSE move_to_closed_loop(self)

\* Mutant of open_loop: the position after the Open-Loop is recorded.
open_loop_pushing_next(self) ==
    IF self.cells[self.cell_ptr + 1] > 0
    THEN Ret([self EXCEPT !.loop_stack = Append(@, self.instruction_ptr + 1)],
             "Ok")
    ELSE move_to_closed_loop(self)

\* Mutant of open_loop: an entered loop is not recorded.
open_loop_not_pushing(self) ==
    IF self.cells[self.cell_ptr + 1] > 0
    THEN Ret(self, "Ok")
    ELSE move_to_closed_loop(self)

\* Program::open_loop
open_loop(self) ==
    IF self.cells[self.cell_ptr + 1] > 0
    THEN Ret([self EXCEPT !.loop_stack = Append(@, self.instruction_ptr)], "Ok")
    ELSE move_to_closed_loop(self)

\* Mutant of close_loop: `pop()` without the `- 1`, so that step leaves the
\* cursor behind the recorded Open-Loop.
close_loop_no_rewind(self, overflow_checks) ==
    IF Len(self.loop_stack) = 0
    THEN Ret(self, "MissingOpen")
    ELSE Ret([self EXCEPT !.loop_stack = SubSeq(@, 1, Len(@) - 1),
                          !.instruction_ptr =
                              self.loop_stack[Len(self.loop_stack)]],
             "Ok")

\* Mutant of close_loop: loop_stack.last() for loop_stack.pop(), so the
\* position stays on the stack.
close_loop_not_popping(self, overflow_checks) ==
    IF Len(self.loop_stack) = 0
    THEN Ret(self, "MissingOpen")
    ELSE Ret([self EXCEPT !.instruction_ptr =
                              self.loop_stack[Len(self.loop_stack)] - 1],
             "Ok")

\* Mutant of close_loop: a Close-Loop on an empty stack is passed over.
close_loop_lenient(self, overflow_checks) ==
    IF Len(self.loop_stack) = 0
    THEN Ret(self, "Ok")
    ELSE Ret([self EXCEPT !.loop_stack = SubSeq(@, 1, Len(@) - 1),
                          !.instruction_ptr =
                              self.loop_stack[Len(self.loop_stack)] - 1],
             "Ok")

\* Program::close_loop.  `pop() - 1` on a popped 0 overflows usize: a panic
\* in a build with overflow checks, usize::MAX otherwise, which the
\* `instruction_ptr += 1` of step wraps back to 0; usize::MAX is written -1.
close_loop(self, overflow_checks) ==
    IF Len(self.loop_stack) = 0
    THEN Ret(self, "MissingOpen")
    ELSE LET n == self.loop_stack[Len(self.loop_stack)]
             popped == [self EXCEPT !.loop_stack = SubSeq(@, 1, Len(@) - 1)]
         IN  IF n = 0 /\ overflow_checks
             THEN Ret(popped, "panic")
             ELSE Ret([popped EXCEPT !.instruction_ptr = n - 1], "Ok")

\* The match of Program::step on the instruction.
dispatch(self, instruction, in_char, overflow_checks) ==
    IF instruction.kind = "MvPtr" THEN move_cell_pointer(self, instruction.n)
    ELSE IF instruction.kind = "MvValue" THEN move_cell_value(self, instruction.n)
    ELSE IF instruction.kind = "Input" THEN input_cell(self, in_char)
    ELSE IF instruction.kind = "Output" THEN output_cell(self)
    ELSE IF instruction.kind = "OpenLoop" THEN open_loop(self)
    ELSE close_loop(self, overflow_checks)

\* Mutant of step: `instruction_ptr += 1` also after an instruction that
\* returned an error.
step_advancing_on_error(self, in_char, overflow_checks) ==
    LET grown == validate_cells_length(self)
    IN  IF grown.instruction_ptr >= Len(instructions)
        THEN Ret(grown, "InstructionBoundsError")
        ELSE [ dispatch(grown, instructions[grown.instruction_ptr + 1],
                        in_char, overflow_checks)
               EXCEPT !.self.instruction_ptr = @ + 1 ]

\* Mutant of step: past the end of the instructions there is nothing to do
\* and Ok(()) is returned.
step_past_end_ok(self, in_char, overflow_checks) ==
    LET grown == validate_cells_length(self)
    IN  IF grown.instruction_ptr >= Len(instructions)
        THEN Ret(grown, "Ok")
        ELSE LET r == dispatch(grown, instructions[grown.instruction_ptr + 1],
                               in_char, overflow_checks)
             IN  IF r.res = "Ok"
                 THEN [r EXCEPT !.self.instruction_ptr = @ + 1]
                 ELSE r

\* Program::step.  in_char is what the input closure returns if it is
\* invoked; overflow_checks tells whether the build checks arithmetic.
step(self, in_char, overflow_checks) ==
    LET grown == validate_cells_length(self)
    IN  IF grown.instruction_ptr >= Len(instructions)
        THEN Ret(grown, "InstructionBoundsError")
        ELSE LET r == dispatch(grown, instructions[grown.instruction_ptr + 1],
                               in_char, overflow_checks)
             IN  IF r.res = "Ok"
                 THEN [r EXCEPT !.self.instruction_ptr = @ + 1]
                 ELSE r

(***************************************************************************)
(* The host's calls.  The engine is driven by one thread (&mut self), so a  *)
(* call starts only when no execute is in progress (pc = "idle").          *)
(***************************************************************************)
\* The model follows a step only while it stays inside the bounds.
WithinBounds(r) ==
    /\ r.self.cell_ptr < MaxTape
    /\ Len(out) + Len(r.emitted) <= MaxOut

\* The Program fields after a method returned r.
Becomes(self) ==
    /\ instruction_ptr' = self.instruction_ptr
    /\ cells' = self.cells
    /\ cell_ptr' = self.cell_ptr
    /\ loop_stack' = self.loop_stack
    /\ UNCHANGED <<source, instructions>>

\* Program::from_string followed by Program::new.
Init ==
    /\ source \in Sources
    /\ instructions = from_string(source)
    /\ instruction_ptr = new.instruction_ptr
    /\ cells = new.cells
    /\ cell_ptr = new.cell_ptr
    /\ loop_stack = new.loop_stack
    /\ pc = "idle"
    /\ call = "new"
    /\ result = "unit"
    /\ cb = "none"
    /\ cb_char = 0
    /\ out = <<>>
    /\ from_init = FALSE
    /\ failed = "none"

\* The host calls reset().
Reset ==
    /\ pc = "idle"
    /\ Becomes(reset(Self))
    /\ call' = "reset"
    /\ result' = "unit"
    /\ cb' = "none"
    /\ cb_char' = 0
    /\ out' = <<>>
    /\ failed' = "none"
    /\ UNCHANGED <<pc, from_init>>

\* The host calls done().
Done ==
    /\ pc = "idle"
    /\ call' = "done"
    /\ result' = done(Self)
    /\ cb' = "none"
    /\ cb_char' = 0
    /\ UNCHANGED <<source, prog, pc, out, from_init, failed>>

\* The host calls step(input, output); the input closure would return in_char.
Step(in_char, overflow_checks) ==
    /\ pc = "idle"
    /\ LET r == step(Self, in_char, overflow_checks)
       IN  /\ WithinBounds(r)
           /\ Becomes(r.self)
           /\ call' = "step"
           /\ result' = r.res
           /\ cb' = r.cb
           /\ cb_char' = r.cb_char
           /\ out' = out \o r.emitted
           /\ failed' = (IF r.res \in BFErrorKind THEN r.res ELSE failed)
    /\ UNCHANGED <<pc, from_init>>

\* The host calls execute(input, output): the loop is entered.
ExecuteCall ==
    /\ pc = "idle"
    /\ pc' = "done"
    /\ call' = "execute"
    /\ result' = "running"
    /\ cb' = "none"
    /\ cb_char' = 0
    /\ from_init' = (Self = new)
    /\ UNCHANGED <<source, prog, out, failed>>

\* Mutant of ExecuteDone: no `break` when done() returned true, so the loop
\* goes on to step.
ExecuteDone_not_breaking ==
    /\ pc = "done"
    /\ LET d == done(Self)
       IN  IF d \in {"false", "true"}
           THEN /\ pc' = "step"
                /\ UNCHANGED result
           ELSE /\ pc' = "idle"
                /\ result' = d
    /\ UNCHANGED <<source, prog, call, cb, cb_char, out, from_init, failed>>

\* execute, `if self.done()? { break; }`: an error of done() is returned,
\* true leaves the loop and execute returns Ok(()), false goes on to step.
ExecuteDone ==
    /\ pc = "done"
    /\ LET d == done(Self)
       IN  IF d = "false"
           THEN /\ pc' = "step"
                /\ UNCHANGED result
           ELSE /\ pc' = "idle"
                /\ result' = IF d = "true" THEN "Ok" ELSE d
    /\ UNCHANGED <<source, prog, call, cb, cb_char, out, from_init, failed>>

\* Mutant of ExecuteStep: the error of step is dropped (no `?`) and the loop
\* goes on.
ExecuteStep_dropping_error(in_char, overflow_checks) ==
    /\ pc = "step"
    /\ LET r == step(Self, in_char, overflow_checks)
       IN  /\ WithinBounds(r)
           /\ Becomes(r.self)
           /\ cb' = r.cb
           /\ cb_char' = r.cb_char
           /\ out' = out \o r.emitted
           /\ failed' = (IF r.res \in BFErrorKind THEN r.res ELSE failed)
           /\ pc' = "done"
    /\ UNCHANGED <<call, result, from_init>>

\* execute, `self.step(|| input(), |c| output(c))?`: an error of step is
\* returned, otherwise the loop starts over.
ExecuteStep(in_char, overflow_checks) ==
    /\ pc = "step"
    /\ LET r == step(Self, in_char, overflow_checks)
       IN  /\ WithinBounds(r)
           /\ Becomes(r.self)
           /\ cb' = r.cb
           /\ cb_char' = r.cb_char
           /\ out' = out \o r.emitted
           /\ failed' = (IF r.res \in BFErrorKind THEN r.res ELSE failed)
           /\ IF r.res = "Ok"
              THEN /\ pc' = "done"
                   /\ UNCHANGED result
              ELSE /\ pc' = "idle"
                   /\ result' = r.res
    /\ UNCHANGED <<call, from_init>>

\* The instruction at 0-based position i.
At(i) == instructions[i + 1]

\* The cursor is on an instruction of the given kind.
CursorOn(kind) ==
    /\ instruction_ptr >= 0
    /\ instruction_ptr < Len(instructions)
    /\ At(instruction_ptr).kind = kind

\* What the input closure may return to the next step.  Only input_cell
\* invokes it: before any other instruction one character stands for all.
InputChoices == IF CursorOn("Input") THEN Chars ELSE {0}

\* The builds the next step tells apart: with and without overflow checks
\* when close_loop is about to pop a 0, otherwise any one.
BuildChoices ==
    IF loop_stack # <<>> /\ loop_stack[Len(loop_stack)] = 0
    THEN BOOLEAN
    ELSE {FALSE}

Next ==
    \/ Reset
    \/ Done
    \/ \E in_char \in InputChoices, overflow_checks \in BuildChoices :
           Step(in_char, overflow_checks)
    \/ ExecuteCall
    \/ ExecuteDone
    \/ \E in_char \in InputChoices, overflow_checks \in BuildChoices :
           ExecuteStep(in_char, overflow_checks)

Spec == Init /\ [][Next]_vars

\* execute does not return to its caller between done() and step(): once
\* called, its loop keeps running.
LiveSpec ==
    /\ Init
    /\ [][Next]_vars
    /\ WF_vars(ExecuteDone)
    /\ WF_vars(\E in_char \in InputChoices, overflow_checks \in BuildChoices :
                   ExecuteStep(in_char, overflow_checks))

(***************************************************************************)
(* Vocabulary of the properties.                                           *)
(***************************************************************************)
\* The value of the cell under the cursor; a cell the Vec does not hold yet
\* is a zero cell of the conceptually infinite tape.
CurCell == IF cell_ptr < Len(cells) THEN cells[cell_ptr + 1] ELSE 0

\* This transition is a call of step: by the host, or by execute.
StepTaken == (pc = "idle" /\ call' = "step") \/ pc = "step"

\* What that call of step returned.
StepResult == IF pc = "step" THEN (IF pc' = "done" THEN "Ok" ELSE result')
              ELSE result'

\* This transition is a call of done: by the host, or by execute.
DoneTaken == (pc = "idle" /\ call' = "done") \/ pc = "done"

\* What that call of done returned.
DoneResult == IF pc = "done"
              THEN (IF pc' = "step" THEN "false"
                    ELSE IF result' = "Ok" THEN "true" ELSE result')
              ELSE result'

\* execute has returned (and no call was made since).
Returned == call = "execute" /\ pc = "idle"

\* The tape after is the tape before, extended by zero cells so that the
\* cell under the cursor exists.
TapeOnlyGrown ==
    /\ Len(cells') = (IF Len(cells) > cell_ptr THEN Len(cells) ELSE cell_ptr + 1)
    /\ \A i \in 1..Len(cells') :
           cells'[i] = (IF i <= Len(cells) THEN cells[i] ELSE 0)

\* The number of Open-Loops of positions 0..k-1 that no Close-Loop of those
\* positions matches (a Close-Loop matches the nearest unmatched Open-Loop
\* before it).
RECURSIVE OpenDepth(_)
OpenDepth(k) ==
    IF k = 0 THEN 0
    ELSE LET d == OpenDepth(k - 1)
         IN  IF At(k - 1) = OpenLoop THEN d + 1
             ELSE IF At(k - 1) = CloseLoop /\ d > 0 THEN d - 1
             ELSE d

\* The Close-Loop at position k has no earlier unmatched Open-Loop.
UnmatchedClose(k) == At(k) = CloseLoop /\ OpenDepth(k) = 0

\* The position of the Close-Loop that matches the Open-Loop whose body
\* starts at position i with `depth` Open-Loops open inside it, or -1.
RECURSIVE MatchFrom(_, _)
MatchFrom(i, depth) ==
    IF i >= Len(instructions) THEN -1
    ELSE IF At(i) = OpenLoop THEN MatchFrom(i + 1, depth + 1)
    ELSE IF At(i) = CloseLoop
         THEN (IF depth = 0 THEN i ELSE MatchFrom(i + 1, depth - 1))
    ELSE MatchFrom(i + 1, depth)

\* The Open-Loop at position o has no matching Close-Loop.
UnmatchedOpen(o) == At(o) = OpenLoop /\ MatchFrom(o + 1, 0) = -1

\* Open-Loops minus Close-Loops among the positions a..c-1.
Balance(a, c) ==
    Cardinality({ k \in a..(c - 1) : At(k) = OpenLoop })
        - Cardinality({ k \in a..(c - 1) : At(k) = CloseLoop })

\* Every bracket of the program has its match: no prefix has more
\* Close-Loops than Open-Loops, and the program has as many of the one as
\* of the other.
WellBalanced ==
    /\ \A k \in 0..Len(instructions) : Balance(0, k) >= 0
    /\ Balance(0, Len(instructions)) = 0

\* loop_stack holds the position of an Open-Loop that has no match.
UnmatchedOpenOnStack ==
    \E i \in 1..Len(loop_stack) :
        /\ loop_stack[i] \in 0..(Len(instructions) - 1)
        /\ UnmatchedOpen(loop_stack[i])

(***************************************************************************)
(* C1.  execute alternates done() and step(); it returns Ok only when       *)
(* done() returned true; it returns the first error of done() or step()    *)
(* and makes no step after it; what was emitted before the error stays      *)
(* emitted: the output grows only by the cell of a step that succeeded.     *)
(***************************************************************************)
C1_ExecuteStep ==
    \E in_char \in Chars, overflow_checks \in BOOLEAN :
        LET r == step(Self, in_char, overflow_checks)
        IN  /\ Self' = r.self
            /\ out' = out \o r.emitted
            /\ IF r.res = "Ok"
               THEN pc' = "done" /\ result' = "running"
               ELSE pc' = "idle" /\ result' = r.res /\ r.emitted = <<>>

C1_ExecuteDone ==
    /\ UNCHANGED <<prog, out>>
    /\ \/ done(Self) = "false" /\ pc' = "step" /\ result' = "running"
       \/ done(Self) = "true" /\ pc' = "idle" /\ result' = "Ok"
       \/ done(Self) = "MissingClose" /\ pc' = "idle" /\ result' = "MissingClose"

C1_OutputKept ==
    \/ out' = out
    \/ /\ pc = "step" /\ pc' = "done"
       /\ CursorOn("Output")
       /\ out' = Append(out, CurCell)

C1_ExecuteContract ==
    [][ /\ pc = "done" => C1_ExecuteDone
        /\ pc = "step" => C1_ExecuteStep
        /\ pc # "idle" => C1_OutputKept /\ call' = "execute"
        /\ (pc # "idle" /\ pc' = "idle" /\ result' = "Ok")
               => (pc = "done" /\ done(Self) = "true") ]_vars

\* execute returned an error after some output was emitted.
C1_Witness ==
    /\ Returned
    /\ from_init
    /\ result \in BFErrorKind
    /\ Len(out) > 0

(***************************************************************************)
(* C2.  done() returns true iff instruction_ptr >= len and loop_stack is    *)
(* empty, fails with MissingClose iff instruction_ptr >= len and the stack  *)
(* is not empty, returns false otherwise, and changes nothing of the        *)
(* engine.                                                                 *)
(***************************************************************************)
C2_DoneContract ==
    [][ DoneTaken =>
          /\ DoneResult = "true"
                 <=> (instruction_ptr >= Len(instructions) /\ loop_stack = <<>>)
          /\ DoneResult = "MissingClose"
                 <=> (instruction_ptr >= Len(instructions) /\ loop_stack # <<>>)
          /\ DoneResult = "false"
                 <=> ~(instruction_ptr >= Len(instructions))
          /\ UNCHANGED <<prog, out>> ]_vars

\* done() was called at the end of the sequence with a loop still open.
C2_Witness ==
    /\ call = "done"
    /\ result = "MissingClose"
    /\ instruction_ptr >= Len(instructions)
    /\ loop_stack # <<>>

(***************************************************************************)
(* C3.  execute of the Hello-World program from the initial state emits     *)
(* exactly "Hello World!\n" and returns Ok, whatever the input closure.     *)
(***************************************************************************)
\* "Hello World!\n" as code points.
HelloWorldText == <<72, 101, 108, 108, 111, 32, 87, 111, 114, 108, 100, 33, 10>>

\* The instructions of the Hello-World program.
HelloWorld == from_string(Src_hello_world)

C3_HelloWorld ==
    (instructions = HelloWorld /\ from_init /\ Returned)
        => /\ result = "Ok"
           /\ out = HelloWorldText
           /\ done(Self) = "true"

\* The Hello-World run, started on a fresh engine, has returned.
C3_Witness ==
    /\ instructions = HelloWorld
    /\ from_init
    /\ Returned
    /\ Len(out) = Len(HelloWorldText)

(***************************************************************************)
(* C4.  As claimed: execute of a program with well-balanced brackets,       *)
(* started from the initial state, always terminates (the run ends, or it   *)
(* leaves the bounds of the model).                                        *)
(***************************************************************************)
\* Every step execute could make next leaves the bounds of the model.
AtBound ==
    /\ pc = "step"
    /\ \A in_char \in Chars, overflow_checks \in BOOLEAN :
           ~WithinBounds(step(Self, in_char, overflow_checks))

C4_AlwaysTerminates ==
    (pc # "idle" /\ from_init /\ WellBalanced) ~> (pc = "idle" \/ AtBound)

(***************************************************************************)
(* C4, amended.  When execute of a program with well-balanced brackets,     *)
(* started from the initial state, returns, it returns Ok with done() true, *)
(* or CellBoundsError, or InvalidInput; it need not return.                 *)
(***************************************************************************)
C4_BalancedRunResult ==
    (Returned /\ from_init /\ WellBalanced)
        => /\ result \in {"Ok", "CellBoundsError", "InvalidInput"}
           /\ result = "Ok" => done(Self) = "true"

\* A run of a well-balanced program with a loop has returned Ok after output.
C4_Witness ==
    /\ Returned
    /\ from_init
    /\ result = "Ok"
    /\ \E i \in 1..Len(instructions) : instructions[i] = OpenLoop
    /\ WellBalanced
    /\ out # <<>>

(***************************************************************************)
(* C5.  After reset() the engine is in the state of an engine freshly       *)
(* constructed from the same instructions: instruction_ptr 0, no cells,     *)
(* cell_ptr 0, empty loop stack; the instructions never change.             *)
(***************************************************************************)
C5_ResetContract ==
    /\ [](call = "reset" => (Self = new /\ pc = "idle"))
    /\ [][instructions' = instructions]_vars

\* reset() was called after an execute that ran a non-empty program.
C5_Witness ==
    /\ call = "reset"
    /\ from_init
    /\ instructions # <<>>

(***************************************************************************)
(* C6.  A step on a Close-Loop with an empty loop stack fails with          *)
(* MissingOpen (and ends execute with it); whenever the cursor is on a      *)
(* Close-Loop that has no earlier unmatched Open-Loop, the stack is empty.  *)
(***************************************************************************)
C6_MissingOpen ==
    /\ []((CursorOn("CloseLoop") /\ UnmatchedClose(instruction_ptr))
              => loop_stack = <<>>)
    /\ [][ (StepTaken /\ CursorOn("CloseLoop") /\ loop_stack = <<>>)
               => /\ StepResult = "MissingOpen"
                  /\ pc = "step" => (pc' = "idle" /\ result' = "MissingOpen")
         ]_vars

\* execute, started on a fresh engine, returned MissingOpen.
C6_Witness ==
    /\ Returned
    /\ from_init
    /\ result = "MissingOpen"
    /\ CursorOn("CloseLoop")
    /\ UnmatchedClose(instruction_ptr)

(***************************************************************************)
(* C7.  As claimed: once an Open-Loop without matching Close-Loop has been  *)
(* executed (its position is on the loop stack), execute fails with         *)
(* MissingClose.                                                           *)
(***************************************************************************)
C7_AlwaysMissingClose ==
    (Returned /\ UnmatchedOpenOnStack) => result = "MissingClose"

(***************************************************************************)
(* C7, amended.  A step on an Open-Loop without matching Close-Loop fails   *)
(* with MissingClose if the current cell is zero and otherwise pushes its   *)
(* position, which stays on the stack until reset; then done() at the end   *)
(* of the sequence fails with MissingClose, and execute returns             *)
(* MissingClose unless it fails before with CellBoundsError or              *)
(* InvalidInput (or does not return).                                      *)
(***************************************************************************)
C7_UnmatchedOpen ==
    /\ []((Returned /\ UnmatchedOpenOnStack)
              => result \in {"MissingClose", "CellBoundsError", "InvalidInput"})
    /\ []((UnmatchedOpenOnStack /\ instruction_ptr >= Len(instructions))
              => done(Self) = "MissingClose")
    /\ [][ (StepTaken /\ CursorOn("OpenLoop") /\ UnmatchedOpen(instruction_ptr))
               => IF CurCell = 0
                  THEN StepResult = "MissingClose"
                  ELSE /\ StepResult = "Ok"
                       /\ loop_stack' = Append(loop_stack, instruction_ptr)
                       /\ instruction_ptr' = instruction_ptr + 1 ]_vars
    /\ [][ (UnmatchedOpenOnStack /\ call' # "reset")
               => UnmatchedOpenOnStack' ]_vars

\* execute, started on a fresh engine, ran to the end of the sequence with an
\* unmatched Open-Loop on the stack and returned MissingClose.
C7_Witness ==
    /\ Returned
    /\ from_init
    /\ result = "MissingClose"
    /\ instruction_ptr >= Len(instructions)
    /\ UnmatchedOpenOnStack

(***************************************************************************)
(* C8.  As claimed: a Move-Pointer step that would take cell_ptr below 0    *)
(* fails with CellBoundsError and leaves instruction_ptr, cell_ptr,         *)
(* loop_stack and the cells (length and contents) as they were.            *)
(***************************************************************************)
MovesBelowZero ==
    /\ StepTaken
    /\ CursorOn("MvPtr")
    /\ cell_ptr + At(instruction_ptr).n < 0

C8_NothingMutated ==
    [][ MovesBelowZero
            => /\ StepResult = "CellBoundsError"
               /\ UNCHANGED <<instruction_ptr, cell_ptr, loop_stack, cells>>
      ]_vars

(***************************************************************************)
(* C8, amended.  Such a step fails with CellBoundsError and leaves          *)
(* instruction_ptr, cell_ptr, loop_stack and every existing cell as they    *)
(* were, but the cells may have been extended by zero cells up to length    *)
(* cell_ptr + 1 (a leading `<` leaves one zero cell); cell_ptr is never     *)
(* negative.                                                               *)
(***************************************************************************)
C8_CellBoundsError ==
    /\ [](cell_ptr >= 0)
    /\ [][ MovesBelowZero
               => /\ StepResult = "CellBoundsError"
                  /\ UNCHANGED <<instruction_ptr, cell_ptr, loop_stack>>
                  /\ TapeOnlyGrown
                  /\ cb' = "none" /\ out' = out ]_vars

\* A leading `<` has failed on a fresh engine, which now holds one zero cell.
C8_Witness ==
    /\ pc = "idle"
    /\ call \in {"step", "execute"}
    /\ result = "CellBoundsError"
    /\ instruction_ptr = 0
    /\ cells = <<0>>

(***************************************************************************)
(* C9.  As claimed: an Input step whose closure returns a character above   *)
(* 255 fails with InvalidInput and leaves the cells (length and values) as  *)
(* they were; with a character of at most 255 it succeeds and the current   *)
(* cell holds that value.                                                  *)
(***************************************************************************)
C9_TapeUntouched ==
    [][ (StepTaken /\ CursorOn("Input"))
            => /\ cb' = "input"
               /\ IF cb_char' > 255
                  THEN StepResult = "InvalidInput" /\ cells' = cells
                  ELSE StepResult = "Ok" /\ cells'[cell_ptr + 1] = cb_char'
      ]_vars

(***************************************************************************)
(* C9, amended.  With a character above 255 the step fails with             *)
(* InvalidInput and changes no cell value: the cells are as before, except  *)
(* that they may have been extended by zero cells up to length cell_ptr + 1;*)
(* with a character of at most 255 it succeeds and the current cell holds   *)
(* that value.                                                             *)
(***************************************************************************)
C9_InvalidInput ==
    [][ (StepTaken /\ CursorOn("Input"))
            => /\ cb' = "input"
               /\ IF cb_char' > 255
                  THEN /\ StepResult = "InvalidInput"
                       /\ TapeOnlyGrown
                       /\ UNCHANGED <<instruction_ptr, cell_ptr, loop_stack>>
                  ELSE /\ StepResult = "Ok"
                       /\ cells'[cell_ptr + 1] = cb_char' ]_vars

\* `,` on a fresh engine was given U+10FFFF: InvalidInput, one zero cell.
C9_Witness ==
    /\ pc = "idle"
    /\ call \in {"step", "execute"}
    /\ result = "InvalidInput"
    /\ cb = "input"
    /\ cb_char = 1114111
    /\ cells = <<0>>

(***************************************************************************)
(* C10.  step called with instruction_ptr >= len fails with                 *)
(* InstructionBoundsError, executes no instruction (cursors, loop stack and *)
(* cell values stay) and invokes neither closure.                           *)
(***************************************************************************)
C10_InstructionBoundsError ==
    [][ (StepTaken /\ instruction_ptr >= Len(instructions))
            => /\ StepResult = "InstructionBoundsError"
               /\ UNCHANGED <<instruction_ptr, cell_ptr, loop_stack>>
               /\ TapeOnlyGrown
               /\ cb' = "none" /\ out' = out ]_vars

\* step was called after an execute had run a non-empty program to its end.
C10_Witness ==
    /\ call = "step"
    /\ result = "InstructionBoundsError"
    /\ from_init
    /\ instructions # <<>>
    /\ instruction_ptr = Len(instructions)

(***************************************************************************)
(* C11.  A step on Move-Value(d) never fails; it sets the cell under the    *)
(* cursor to (cell + d) mod 256 (255 + 1 gives 0, 0 - 1 gives 255), leaves  *)
(* every other cell and both cursors' other state alone; every cell of      *)
(* every reachable state is a byte.                                        *)
(***************************************************************************)
C11_MoveValue ==
    /\ [](\A i \in 1..Len(cells) : cells[i] \in 0..255)
    /\ [][ (StepTaken /\ CursorOn("MvValue"))
               => /\ StepResult = "Ok"
                  /\ Len(cells') = (IF Len(cells) > cell_ptr
                                    THEN Len(cells) ELSE cell_ptr + 1)
                  /\ cells'[cell_ptr + 1] =
                         (CurCell + At(instruction_ptr).n) % 256
                  /\ \A i \in 1..Len(cells') :
                         i # cell_ptr + 1 =>
                             cells'[i] = (IF i <= Len(cells) THEN cells[i]
                                          ELSE 0)
                  /\ (CurCell = 255 /\ At(instruction_ptr).n = 1)
                         => cells'[cell_ptr + 1] = 0
                  /\ (CurCell = 0 /\ At(instruction_ptr).n = -1)
                         => cells'[cell_ptr + 1] = 255
                  /\ UNCHANGED <<cell_ptr, loop_stack>>
                  /\ cb' = "none" /\ out' = out ]_vars

\* `-` was just executed on a zero cell, which wrapped to 255.
C11_Witness ==
    /\ call \in {"step", "execute"}
    /\ result \in {"Ok", "running"}
    /\ instruction_ptr = 1
    /\ At(0) = MvValue(-1)
    /\ cell_ptr = 0
    /\ cells = <<255>>

(***************************************************************************)
(* C12.  A step invokes the input closure exactly when it executes an       *)
(* Input instruction and the output closure exactly when it executes an     *)
(* Output instruction, which passes the byte of the cell under the cursor;  *)
(* the bytes are emitted in the order of execution.  No other instruction,  *)
(* no step that fails its bounds check, no done() and no reset() invokes a  *)
(* closure.                                                                *)
(***************************************************************************)
C12_Callbacks ==
    /\ [][ StepTaken
               => /\ (cb' = "input") = CursorOn("Input")
                  /\ (cb' = "output") = CursorOn("Output")
                  /\ CursorOn("Output") =>
                         (cb_char' = CurCell /\ out' = Append(out, CurCell))
                  /\ ~CursorOn("Output") => out' = out
                  /\ ~(CursorOn("Input") \/ CursorOn("Output")) =>
                         (cb' = "none" /\ cb_char' = 0) ]_vars
    /\ [][ ~StepTaken
               => /\ cb' \in {"none", cb}
                  /\ cb_char' \in {0, cb_char}
                  /\ out' = out \/ (call' = "reset" /\ out' = <<>>)
                  /\ (pc = "idle") => cb' = "none" ]_vars

\* An Input instruction is executed after two Output instructions: the
\* input closure was invoked with both bytes already emitted in order.
C12_Witness ==
    /\ cb = "input"
    /\ cb_char = 255
    /\ result \in {"Ok", "running"}
    /\ Len(out) = 2
    /\ out[1] # out[2]

(***************************************************************************)
(* C13.  execute of `,>,<.>.` from the initial state, the input closure     *)
(* returning c1 and then c2 (both at most 255), emits exactly c1 then c2    *)
(* and returns Ok with done() true: the two Input steps store c1 in cell 0  *)
(* and c2 in cell 1, no later step changes a cell, and the run ends with    *)
(* out = <<cell 0, cell 1>>.  (A character above 255 ends it with           *)
(* InvalidInput.)                                                          *)
(***************************************************************************)
EchoTwo == from_string(Src_echo_two)

EchoRun == instructions = EchoTwo /\ call = "execute" /\ from_init

C13_EchoTwo ==
    /\ [](EchoRun =>
            /\ instruction_ptr \in 0..7
            /\ instruction_ptr < 5 => out = <<>>
            /\ instruction_ptr \in 5..6 => out = <<cells[1]>>
            /\ instruction_ptr = 7 => out = <<cells[1], cells[2]>>
            /\ Returned =>
                   \/ /\ result = "Ok"
                      /\ instruction_ptr = 7
                      /\ done(Self) = "true"
                   \/ /\ result = "InvalidInput"
                      /\ instruction_ptr \in {0, 2}
                      /\ cb_char > 255)
    /\ [][ (EchoRun /\ pc = "step")
               => /\ (instruction_ptr = 0 /\ cb_char' <= 255)
                         => cells' = <<cb_char'>>
                  /\ (instruction_ptr = 2 /\ cb_char' <= 255)
                         => cells' = <<cells[1], cb_char'>>
                  /\ instruction_ptr >= 3 => cells' = cells ]_vars

\* The run with c1 = 255 and c2 = 0 has returned Ok.
C13_Witness ==
    /\ EchoRun
    /\ Returned
    /\ result = "Ok"
    /\ out = <<255, 0>>

(***************************************************************************)
(* C14.  from_string returns exactly the instructions of the recognized     *)
(* characters of the text, in the order of the text: `>` Move-Pointer(+1),  *)
(* `<` Move-Pointer(-1), `+` Move-Value(+1), `-` Move-Value(-1), `.`        *)
(* Output, `,` Input, `[` Open-Loop, `]` Close-Loop; every other character  *)
(* is dropped, so the length is the number of recognized characters, and    *)
(* every delta is +1 or -1.  (call = "new": from_string has just returned.) *)
(***************************************************************************)
\* The instruction the table gives for a recognized character.
TableEntry(c) ==
    CASE c = ">" -> [kind |-> "MvPtr", n |-> 1]
      [] c = "<" -> [kind |-> "MvPtr", n |-> -1]
      [] c = "+" -> [kind |-> "MvValue", n |-> 1]
      [] c = "-" -> [kind |-> "MvValue", n |-> -1]
      [] c = "." -> [kind |-> "Output"]
      [] c = "," -> [kind |-> "Input"]
      [] c = "[" -> [kind |-> "OpenLoop"]
      [] c = "]" -> [kind |-> "CloseLoop"]

\* The positions of the text that hold a recognized character.
Recognized ==
    { p \in 1..Len(source) :
          source[p] \in {">", "<", "+", "-", ".", ",", "[", "]"} }

\* The number of recognized characters up to position p.
Rank(p) == Cardinality({ q \in Recognized : q <= p })

C14_FromString ==
    call = "new" =>
        /\ Len(instructions) = Cardinality(Recognized)
        /\ \A p \in Recognized : instructions[Rank(p)] = TableEntry(source[p])
        /\ \A i \in 1..Len(instructions) :
               instructions[i].kind \in {"MvPtr", "MvValue"}
                   => instructions[i].n \in {1, -1}

\* The text of the test str_to_instructions, eight commands around the
\* words "s" and "comment", was parsed to its eight instructions.
C14_Witness ==
    /\ source = Src_str_to_instructions
    /\ call = "new"
    /\ Len(instructions) = 8
    /\ Len(source) = 16

(***************************************************************************)
(* C15.  A step on an Open-Loop with a nonzero cell under the cursor pushes *)
(* the position of that Open-Loop and moves the instruction cursor to the   *)
(* next instruction.  A step on a Close-Loop with a non-empty loop stack    *)
(* succeeds, pops the top p and leaves the instruction cursor at p, which   *)
(* is an Open-Loop: the next instruction executed is that Open-Loop.        *)
(***************************************************************************)
C15_EnterAndRepeat ==
    /\ [][ (StepTaken /\ CursorOn("OpenLoop") /\ CurCell # 0)
               => /\ StepResult = "Ok"
                  /\ loop_stack' = Append(loop_stack, instruction_ptr)
                  /\ instruction_ptr' = instruction_ptr + 1
                  /\ UNCHANGED <<cells, cell_ptr>> ]_vars
    /\ [][ (StepTaken /\ CursorOn("CloseLoop") /\ loop_stack # <<>>)
               => /\ StepResult = "Ok"
                  /\ loop_stack' = SubSeq(loop_stack, 1, Len(loop_stack) - 1)
                  /\ instruction_ptr' = loop_stack[Len(loop_stack)]
                  /\ instruction_ptr' < instruction_ptr
                  /\ At(instruction_ptr') = OpenLoop
                  /\ TapeOnlyGrown
                  /\ UNCHANGED cell_ptr ]_vars

\* `+[-]` after the Close-Loop: the cursor is back on the Open-Loop, the cell
\* the body decremented is 0 and the position was popped.
C15_Witness ==
    /\ instructions = <<MvValue(1), OpenLoop, MvValue(-1), CloseLoop>>
    /\ instruction_ptr = 1
    /\ cells = <<0>>
    /\ loop_stack = <<>>
    /\ result \in {"Ok", "running"}

(***************************************************************************)
(* C16.  A step on the Open-Loop at position o with a zero cell under the   *)
(* cursor, whose lexically matching Close-Loop is at position c, leaves the *)
(* instruction cursor at c + 1, pushes nothing and leaves the loop stack,   *)
(* the tape cursor and every cell value unchanged; a Close-Loop of a loop   *)
(* nested in the skipped body is never taken for the match.                *)
(***************************************************************************)
C16_SkipLoop ==
    [][ (/\ StepTaken
         /\ CursorOn("OpenLoop")
         /\ CurCell = 0
         /\ MatchFrom(instruction_ptr + 1, 0) # -1)
            => /\ StepResult = "Ok"
               /\ instruction_ptr' = MatchFrom(instruction_ptr + 1, 0) + 1
               /\ UNCHANGED <<loop_stack, cell_ptr>>
               /\ TapeOnlyGrown
               /\ cb' = "none" /\ out' = out ]_vars

\* `[[]]` on a fresh engine: one step skipped the outer loop, past the
\* Close-Loop of the inner one.
C16_Witness ==
    /\ instructions = <<OpenLoop, OpenLoop, CloseLoop, CloseLoop>>
    /\ call \in {"step", "execute"}
    /\ result \in {"Ok", "running"}
    /\ instruction_ptr = 4
    /\ cells = <<0>>
    /\ loop_stack = <<>>

(***************************************************************************)
(* C17.  For a program with well-balanced brackets, in every state between  *)
(* steps the loop stack holds, bottom to top and outermost first, exactly   *)
(* the positions o of the Open-Loops whose loop encloses the instruction    *)
(* cursor (o < instruction_ptr <= position of the match of o): its depth is *)
(* the number of loops currently open and it is empty exactly when the      *)
(* cursor is in no loop body.                                              *)
(***************************************************************************)
\* The position of the Close-Loop that lexically matches the Open-Loop at
\* position o: the first Close-Loop after o with as many Open-Loops as
\* Close-Loops between the two; -1 if there is none.
Match(o) ==
    LET closes == { c \in (o + 1)..(Len(instructions) - 1) :
                        At(c) = CloseLoop /\ Balance(o + 1, c) = 0 }
    IN  IF closes = {} THEN -1
        ELSE CHOOSE c \in closes : \A d \in closes : c <= d

\* The Open-Loops whose loop encloses the instruction cursor.
Enclosing ==
    { o \in 0..(Len(instructions) - 1) :
          /\ At(o) = OpenLoop
          /\ o < instruction_ptr
          /\ instruction_ptr <= Match(o) }

LoopStackIsEnclosing ==
    /\ Len(loop_stack) = Cardinality(Enclosing)
    /\ \A i \in 1..Len(loop_stack) : loop_stack[i] \in Enclosing
    /\ \A i, j \in 1..Len(loop_stack) :
           i < j => loop_stack[i] < loop_stack[j]
    /\ (loop_stack = <<>>) = (Enclosing = {})

C17_LoopStackIsEnclosing == LoopStackIsEnclosing \/ ~WellBalanced

\* A well-bracketed program past the first instruction of its inner loop:
\* two loops are open.
C17_Witness ==
    /\ WellBalanced
    /\ Len(loop_stack) = 2
    /\ Cardinality(Enclosing) = 2
    /\ instruction_ptr > loop_stack[2] + 1

(***************************************************************************)
(* C18.  Every step first grows the tape with zero cells until it holds the *)
(* cell under the tape cursor, so the instruction reads and writes a cell   *)
(* that exists; no step, done() or execute shortens the tape or changes a   *)
(* cell other than the one under the cursor, and only Move-Value and Input  *)
(* change that one: the length never decreases until reset empties the      *)
(* tape.                                                                   *)
(***************************************************************************)
C18_TapeGrowth ==
    /\ [][ StepTaken
               => /\ Len(cells') = (IF Len(cells) > cell_ptr
                                    THEN Len(cells) ELSE cell_ptr + 1)
                  /\ Len(cells') > cell_ptr
                  /\ \A i \in 1..Len(cells') :
                         i # cell_ptr + 1 =>
                             cells'[i] = (IF i <= Len(cells) THEN cells[i]
                                          ELSE 0)
                  /\ ~(CursorOn("MvValue") \/ CursorOn("Input"))
                         => TapeOnlyGrown ]_vars
    /\ [][ (~StepTaken /\ call' # "reset") => cells' = cells ]_vars
    /\ [][ call' # "reset" => Len(cells') >= Len(cells) ]_vars
    /\ [][ call' = "reset" => cells' = <<>> ]_vars

\* A step with the cursor two cells right of a written cell has grown the
\* tape to three cells, the new ones zero.
C18_Witness ==
    /\ Len(cells) = 3
    /\ cells[1] # 0
    /\ cells[2] = 0
    /\ cells[3] = 0
    /\ cell_ptr = 2
    /\ result \in {"Ok", "running"}

(***************************************************************************)
(* C19.  For a well-bracketed program the engine runs step for step like a  *)
(* reference interpreter that has no loop stack but a jump table computed   *)
(* from the program text (each Open-Loop to its lexical match, each         *)
(* Close-Loop back to its Open-Loop): from equal states and with the same   *)
(* input character, one step of each gives the same result, the same        *)
(* instruction cursor, tape cursor and cell values and the same output;     *)
(* both start from the same state and both are done at the same positions,  *)
(* so execute ends with the reference's result.                            *)
(***************************************************************************)
\* The jump table of the reference interpreter.
JumpTable(p) ==
    IF At(p) = OpenLoop THEN Match(p)
    ELSE LET opens == { o \in 0..p : At(o) = OpenLoop /\ Match(o) = p }
         IN  IF opens = {} THEN -1 ELSE CHOOSE o \in opens : TRUE

\* The tape as the reference interpreter holds it: a zeroed array.
RefTape(tape_cells) ==
    [ i \in 0..MaxTape |-> IF i < Len(tape_cells) THEN tape_cells[i + 1] ELSE 0 ]

\* The state of the reference interpreter that stands for the engine's.
RefState ==
    [ ip |-> instruction_ptr, ptr |-> cell_ptr, tape |-> RefTape(cells) ]

RefReturn(r, res, emitted) == [state |-> r, res |-> res, emitted |-> emitted]

\* One step of the reference interpreter; in_char is the next input.
RefStep(r, in_char) ==
    IF r.ip >= Len(instructions)
    THEN RefReturn(r, "InstructionBoundsError", <<>>)
    ELSE LET instruction == At(r.ip)
             next == [r EXCEPT !.ip = @ + 1]
         IN  CASE instruction.kind = "MvPtr" ->
                    IF r.ptr + instruction.n < 0
                    THEN RefReturn(r, "CellBoundsError", <<>>)
                    ELSE RefReturn([next EXCEPT !.ptr = @ + instruction.n],
                                   "Ok", <<>>)
               [] instruction.kind = "MvValue" ->
                    RefReturn([next EXCEPT !.tape[r.ptr] =
                                               (@ + instruction.n) % 256],
                              "Ok", <<>>)
               [] instruction.kind = "Input" ->
                    IF in_char > 255
                    THEN RefReturn(r, "InvalidInput", <<>>)
                    ELSE RefReturn([next EXCEPT !.tape[r.ptr] = in_char],
                                   "Ok", <<>>)
               [] instruction.kind = "Output" ->
                    RefReturn(next, "Ok", <<r.tape[r.ptr]>>)
               [] instruction.kind = "OpenLoop" ->
                    IF r.tape[r.ptr] = 0
                    THEN RefReturn([r EXCEPT !.ip = JumpTable(r.ip) + 1],
                                   "Ok", <<>>)
                    ELSE RefReturn(next, "Ok", <<>>)
               [] instruction.kind = "CloseLoop" ->
                    RefReturn([r EXCEPT !.ip = JumpTable(r.ip)], "Ok", <<>>)

\* This step of the engine is the step of the reference interpreter.
RefStepAgrees ==
    LET r == RefStep(RefState, cb_char')
    IN  /\ StepResult = r.res
        /\ RefState' = r.state
        /\ out' = out \o r.emitted

\* done() is true exactly where the reference interpreter has finished.
RefDoneAgrees ==
    DoneResult = (IF instruction_ptr >= Len(instructions) THEN "true"
                  ELSE "false")

C19_RefinesJumpTable ==
    /\ [](call \in {"new", "reset"} =>
              RefState = [ip |-> 0, ptr |-> 0, tape |-> RefTape(<<>>)])
    /\ [][ StepTaken => (RefStepAgrees \/ ~WellBalanced) ]_vars
    /\ [][ DoneTaken => (RefDoneAgrees \/ ~WellBalanced) ]_vars

\* execute is about to close the inner of two nested loops on a zero cell:
\* the jump back and the skip that follows are the reference's two jumps.
C19_Witness ==
    /\ WellBalanced
    /\ call = "execute"
    /\ pc = "step"
    /\ CursorOn("CloseLoop")
    /\ Len(loop_stack) = 2
    /\ CurCell = 0

(***************************************************************************)
(* C20.  As claimed: a step that fails with MissingOpen, MissingClose,      *)
(* CellBoundsError or InstructionBoundsError leaves the engine where the    *)
(* same step fails again, and every execute that returns after such a       *)
(* failure, until reset is called, returns an error.                       *)
(***************************************************************************)
\* The errors of a step that no repetition of the step can get past.
LastingErrors ==
    {"MissingOpen", "MissingClose", "CellBoundsError", "InstructionBoundsError"}

\* The lasting error the instruction under the cursor is bound to fail
\* with in this state, or "none".
FailureAhead ==
    IF instruction_ptr >= Len(instructions) THEN "InstructionBoundsError"
    ELSE IF CursorOn("MvPtr") /\ cell_ptr + At(instruction_ptr).n < 0
    THEN "CellBoundsError"
    ELSE IF CursorOn("CloseLoop") /\ loop_stack = <<>> THEN "MissingOpen"
    ELSE IF CursorOn("OpenLoop") /\ CurCell = 0 /\ Match(instruction_ptr) = -1
    THEN "MissingClose"
    ELSE "none"

C20_EveryLaterCallFails ==
    failed \in LastingErrors =>
        /\ FailureAhead = failed
        /\ Returned => result \in BFErrorKind

(***************************************************************************)
(* C20, amended.  A step that fails with one of those four errors leaves    *)
(* both cursors, the loop stack and the cell values as they were (the tape  *)
(* only grown by zero cells) and invokes no closure.  From then on, until   *)
(* reset is called, no call changes the engine or the output, every step    *)
(* fails with the same error, and an execute returns that error, except     *)
(* after InstructionBoundsError, where done() decides before any step:      *)
(* execute returns Ok when the loop stack is empty and MissingClose when it *)
(* is not.  A step that succeeds was therefore preceded, since the last     *)
(* reset, by no failure or by an InvalidInput failure last.                *)
(***************************************************************************)
C20_FailedStepStays ==
    /\ [](failed \in LastingErrors =>
              /\ FailureAhead = failed
              /\ Returned =>
                     \/ result = failed
                     \/ /\ failed = "InstructionBoundsError"
                        /\ result = (IF loop_stack = <<>> THEN "Ok"
                                     ELSE "MissingClose"))
    /\ [][ (StepTaken /\ StepResult \in LastingErrors)
               => /\ UNCHANGED <<instruction_ptr, cell_ptr, loop_stack>>
                  /\ TapeOnlyGrown
                  /\ cb' = "none" /\ out' = out
                  /\ failed' = StepResult ]_vars
    /\ [][ (failed \in LastingErrors /\ call' # "reset")
               => /\ UNCHANGED <<prog, out, failed>>
                  /\ StepTaken => StepResult = failed ]_vars
    /\ [][ (StepTaken /\ StepResult = "Ok")
               => failed \in {"none", "InvalidInput"} ]_vars

\* A leading `<` failed in a step; an execute called afterwards, on the
\* engine that step left with one zero cell, has failed the same way.
C20_Witness ==
    /\ Returned
    /\ ~from_init
    /\ failed = "CellBoundsError"
    /\ result = "CellBoundsError"
    /\ instruction_ptr = 0
    /\ cells = <<0>>

(***************************************************************************)
(* C21.  Whatever the program (balanced or not) and the calls made, in      *)
(* every reachable state each loop stack entry is the position of an        *)
(* Open-Loop, the entries increase strictly from bottom to top, each is     *)
(* less than the instruction cursor and none is 0; so the `pop() - 1` of    *)
(* close_loop never goes below 0: no call panics and the cursor is never    *)
(* the wrapped usize::MAX (written -1).                                     *)
(***************************************************************************)
C21_LoopStackEntries ==
    /\ \A i \in 1..Len(loop_stack) :
           /\ loop_stack[i] \in 1..(Len(instructions) - 1)
           /\ At(loop_stack[i]) = OpenLoop
           /\ loop_stack[i] < instruction_ptr
    /\ \A i \in 1..(Len(loop_stack) - 1) : loop_stack[i] < loop_stack[i + 1]
    /\ result # "panic"
    /\ instruction_ptr >= 0

\* A program with two Open-Loops and no Close-Loop after them has entered
\* both.
C21_Witness ==
    /\ Len(loop_stack) = 2
    /\ \A k \in loop_stack[1]..(Len(instructions) - 1) : At(k) # CloseLoop
    /\ instruction_ptr = loop_stack[2] + 1

(***************************************************************************)
(* C22.  In every reachable state instruction_ptr <= len of the             *)
(* instructions.  So a step that failed with InstructionBoundsError found   *)
(* the cursor equal to len; execute calls step only with the cursor below   *)
(* len (done() returned false) and never returns InstructionBoundsError.    *)
(***************************************************************************)
C22_CursorWithinProgram ==
    /\ instruction_ptr <= Len(instructions)
    /\ (call = "step" /\ result = "InstructionBoundsError")
           => instruction_ptr = Len(instructions)
    /\ failed = "InstructionBoundsError"
           => instruction_ptr = Len(instructions)
    /\ pc = "step" => instruction_ptr < Len(instructions)
    /\ call = "execute" => result # "InstructionBoundsError"

\* A step failed past the end of a program whose loop is still open; the
\* execute called after it returned the MissingClose of done(), not the
\* error of a step.
C22_Witness ==
    /\ Returned
    /\ failed = "InstructionBoundsError"
    /\ result = "MissingClose"
    /\ instruction_ptr = Len(instructions)
    /\ loop_stack # <<>>

(***************************************************************************)
(* C23.  An execute started from the initial state returns Ok only for a    *)
(* well-bracketed program: when the program has an unmatched `[` or an      *)
(* unmatched `]`, every run that returns has returned MissingOpen,          *)
(* MissingClose, CellBoundsError or InvalidInput, whatever the input.       *)
(***************************************************************************)
C23_OkOnlyIfBalanced ==
    \/ ~(Returned /\ from_init)
    \/ result \in {"MissingOpen", "MissingClose", "CellBoundsError",
                    "InvalidInput"}
    \/ (result = "Ok" /\ WellBalanced)

\* A run emitted a nonzero byte and then failed on the unmatched Close-Loop
\* that ends the program.
C23_Witness ==
    /\ Returned
    /\ from_init
    /\ ~WellBalanced
    /\ result = "MissingOpen"
    /\ out = <<255>>
    /\ instruction_ptr = Len(instructions) - 1

====
